---- MODULE Spec2Model ----
(***************************************************************************)
(* Model of Sources/CSignalHelpers/CSignalHelpers.c: the numeric-to-text   *)
(* converters (simple_itoa, simple_ulltoa, simple_ptr_to_hex), the         *)
(* primitive writers, and the report composer write_minimal_crash_info_c.  *)
(*                                                                         *)
(* Characters are one-character strings, C strings are sequences of them.  *)
(* 64-bit quantities (uint64_t, uintptr_t, time_t) are four 16-bit limbs,  *)
(* least significant first, so that they keep their full width.            *)
(***************************************************************************)
EXTENDS Integers, Sequences, FiniteSets, TLC

VARIABLES
    fd, signal_num, timestamp, thread_id, frames, frame_count, \* arguments
    env, faults,          \* behaviour of the underlying write(2)
    pc, i, total_written, res, ret,                            \* locals
    stream, calls, possum, nonpos, iters, frame_reads,         \* observations
    cv                    \* one converter call: arguments and result

vars == <<fd, signal_num, timestamp, thread_id, frames, frame_count,
          env, faults, pc, i, total_written, res, ret,
          stream, calls, possum, nonpos, iters, frame_reads, cv>>

composerVars == <<fd, signal_num, timestamp, thread_id, frames, frame_count,
                  env, faults, pc, i, total_written, res, ret,
                  stream, calls, possum, nonpos, iters, frame_reads>>

-----------------------------------------------------------------------------
(* Program constants *)

INT32_MAX == 2147483647
INT32_MIN == -2147483647 - 1
Int32BufLen == 12
UInt64BufLen == 21
PtrBytes == 8
PtrBufLen == PtrBytes * 2 + 3
SafetyLimit == 4000
ConsumerBufSize == 4096

(* Bounds of the model *)

MaxCap == 22
MaxFrames == 340
MaxFlakyFrames == 2
MaxFaults == 2

-----------------------------------------------------------------------------
(* Characters *)

NUL == "NUL"
Uninit == "?"
OverRead == "!"
DigitChars == <<"0", "1", "2", "3", "4", "5", "6", "7", "8", "9">>
\* variant: uppercase digits
hex_chars_upper == <<"0", "1", "2", "3", "4", "5", "6", "7", "8", "9",
                     "A", "B", "C", "D", "E", "F">>

hex_chars == <<"0", "1", "2", "3", "4", "5", "6", "7", "8", "9",
               "a", "b", "c", "d", "e", "f">>

DigitChar(d) == DigitChars[d + 1]

-----------------------------------------------------------------------------
(* 64-bit unsigned arithmetic on limbs <<l0, l1, l2, l3>>, base 2^16 *)

Base == 65536
U64Zero == <<0, 0, 0, 0>>
U64Max == <<65535, 65535, 65535, 65535>>

U64IsZero(v) == v = U64Zero

U64DivMod10(v) ==
    LET c3 == v[4]
        c2 == (c3 % 10) * Base + v[3]
        c1 == (c2 % 10) * Base + v[2]
        c0 == (c1 % 10) * Base + v[1]
    IN [q |-> <<c0 \div 10, c1 \div 10, c2 \div 10, c3 \div 10>>, r |-> c0 % 10]

U64Mod10(v) == U64DivMod10(v).r
U64Div10(v) == U64DivMod10(v).q

U64Nibble(v) == v[1] % 16

U64Shr4(v) == <<(v[1] \div 16) + (v[2] % 16) * 4096,
                (v[2] \div 16) + (v[3] % 16) * 4096,
                (v[3] \div 16) + (v[4] % 16) * 4096,
                v[4] \div 16>>

\* (int32_t)x for a 64-bit x: the low 32 bits, read as two's complement
ToInt32(v) == IF v[2] >= 32768 THEN (v[2] - Base) * Base + v[1]
                               ELSE v[2] * Base + v[1]

\* -val on int32_t; for INT32_MIN the negation overflows (undefined), and
\* ub is the value the build leaves in val
Negate(val, ub) == IF val = INT32_MIN THEN ub ELSE -val

NegOverflowOutcomes == {INT32_MIN, 0, INT32_MAX}

-----------------------------------------------------------------------------
(* Scratch buffers: buf is indexed 0..n-1, p is the write cursor (an index, *)
(* -1 is one before the buffer), wr the set of indices stored to.           *)

NewBuf(n) == [buf |-> [k \in 0 .. n - 1 |-> Uninit], p |-> n - 1, wr |-> {}]

\* *p-- = c
Store(s, c) ==
    [buf |-> IF s.p \in DOMAIN s.buf THEN [s.buf EXCEPT ![s.p] = c] ELSE s.buf,
     p   |-> s.p - 1,
     wr  |-> s.wr \cup {s.p}]

\* return p + 1
Result(s) == [buf |-> s.buf, ret |-> s.p + 1, wr |-> s.wr]

\* variant: the digit loop without its p >= buf guard
RECURSIVE itoa_loop_unguarded(_, _)
itoa_loop_unguarded(val, s) ==
    IF val > 0
    THEN itoa_loop_unguarded(val \div 10, Store(s, DigitChar(val % 10)))
    ELSE s

RECURSIVE itoa_loop(_, _)
itoa_loop(val, s) ==
    IF val > 0 /\ s.p >= 0
    THEN itoa_loop(val \div 10, Store(s, DigitChar(val % 10)))
    ELSE s

\* variant: no special case for val == 0
simple_itoa_nozero(val, buf_len, ub) ==
    LET s0   == Store(NewBuf(buf_len), NUL)
        sign == val < 0
        v    == IF sign THEN Negate(val, ub) ELSE val
        s1   == itoa_loop(v, s0)
        s2   == IF sign /\ s1.p >= 0 THEN Store(s1, "-") ELSE s1
    IN Result(s2)

simple_itoa(val, buf_len, ub) ==
    LET s0 == Store(NewBuf(buf_len), NUL)
    IN IF val = 0 /\ s0.p > 0
       THEN Result(Store(s0, "0"))
       ELSE LET sign == val < 0
                v    == IF sign THEN Negate(val, ub) ELSE val
                s1   == itoa_loop(v, s0)
                s2   == IF sign /\ s1.p >= 0 THEN Store(s1, "-") ELSE s1
            IN Result(s2)

\* variant: the digit loop stops at p > buf, one slot early
RECURSIVE ulltoa_loop_early(_, _)
ulltoa_loop_early(val, s) ==
    IF ~U64IsZero(val) /\ s.p > 0
    THEN ulltoa_loop_early(U64Div10(val), Store(s, DigitChar(U64Mod10(val))))
    ELSE s

RECURSIVE ulltoa_loop(_, _)
ulltoa_loop(val, s) ==
    IF ~U64IsZero(val) /\ s.p >= 0
    THEN ulltoa_loop(U64Div10(val), Store(s, DigitChar(U64Mod10(val))))
    ELSE s

simple_ulltoa(val, buf_len) ==
    LET s0 == Store(NewBuf(buf_len), NUL)
    IN IF U64IsZero(val) /\ s0.p > 0
       THEN Result(Store(s0, "0"))
       ELSE Result(ulltoa_loop(val, s0))

RECURSIVE hex_loop(_, _)
hex_loop(val, s) ==
    IF ~U64IsZero(val) /\ s.p >= 0
    THEN hex_loop(U64Shr4(val), Store(s, hex_chars[U64Nibble(val) + 1]))
    ELSE s

\* variant: the leading '0' of "0x" needs p > buf like the 'x'
simple_ptr_to_hex_noprefix(ptr_val, buf_len) ==
    LET s0 == Store(NewBuf(buf_len), NUL)
        s1 == IF U64IsZero(ptr_val) /\ s0.p > 0 THEN Store(s0, "0") ELSE s0
        s2 == hex_loop(ptr_val, s1)
        s3 == IF s2.p > 0 THEN Store(s2, "x") ELSE s2
        s4 == IF s3.p > 0 THEN Store(s3, "0") ELSE s3
    IN Result(s4)

simple_ptr_to_hex(ptr_val, buf_len) ==
    LET s0 == Store(NewBuf(buf_len), NUL)
        s1 == IF U64IsZero(ptr_val) /\ s0.p > 0 THEN Store(s0, "0") ELSE s0
        s2 == hex_loop(ptr_val, s1)
        s3 == IF s2.p > 0 THEN Store(s2, "x") ELSE s2
        s4 == IF s3.p >= 0 THEN Store(s3, "0") ELSE s3
    IN Result(s4)

\* The C string starting at buf[k]: the characters before the first NUL.
\* Reading outside the buffer yields the OverRead marker.
RECURSIVE CStrFrom(_, _)
CStrFrom(buf, k) ==
    IF k \notin DOMAIN buf THEN <<OverRead>>
    ELSE IF buf[k] = NUL THEN <<>>
    ELSE <<buf[k]>> \o CStrFrom(buf, k + 1)

CStr(r) == CStrFrom(r.buf, r.ret)

-----------------------------------------------------------------------------
(* String literals of the report *)

LitSignal == <<"S", "i", "g", "n", "a", "l", ":", " ">>
LitTimestamp == <<"\n", "T", "i", "m", "e", "s", "t", "a", "m", "p", ":", " ">>
LitThreadID == <<"\n", "T", "h", "r", "e", "a", "d", "I", "D", ":", " ">>
LitFramesCount == <<"\n", "F", "r", "a", "m", "e", "s", "_", "c", "o", "u", "n", "t", ":", " ">>
LitFramesHeader == <<"\n", "F", "r", "a", "m", "e", "s", " ", "(", "r", "a", "w", " ",
                     "a", "d", "d", "r", "e", "s", "s", "e", "s", ")", ":", "\n">>
LitIndent == <<" ", " ">>
LitNewline == <<"\n">>
LitNilFrame == <<" ", " ", "0", "x", "0", " ", "(", "n", "i", "l", ")", "\n">>
LitEnd == <<"-", "-", "-", " ", "C", " ", "M", "i", "n", "i", "m", "a", "l", " ",
            "R", "e", "p", "o", "r", "t", " ", "E", "n", "d", " ", "-", "-", "-", "\n">>

-----------------------------------------------------------------------------
(* Primitive writers: the bytes each one hands to write(2) *)

write_literal(str) == str

write_int32_val(val, ub) == CStr(simple_itoa(val, Int32BufLen, ub))

write_uint64_val(val) == CStr(simple_ulltoa(val, UInt64BufLen))

write_ptr_val(val) == CStr(simple_ptr_to_hex(val, PtrBufLen))

-----------------------------------------------------------------------------
(* The underlying write(2): what it may return for a request of n bytes.   *)
(* "full" transfers everything, "dead" never transfers anything, "flaky"   *)
(* may fail, transfer nothing or transfer a proper prefix, at most         *)
(* MaxFaults times in one run.                                             *)

ShortCounts(n) == {1, n - 1} \cap (1 .. n - 1)

WriteOutcomes(n) ==
    CASE env = "full"  -> {n}
      [] env = "dead"  -> {-1, 0}
      [] env = "flaky" -> {n} \cup (IF faults < MaxFaults
                                    THEN {-1, 0} \cup ShortCounts(n)
                                    ELSE {})

\* variant: only a zero result is skipped
Accumulate_nonzero(total, r) == IF r # 0 THEN total + r ELSE total

\* if (res > 0) total_written += res;
Accumulate(total, r) == IF r > 0 THEN total + r ELSE total

\* variant: only fds below -1 are rejected
InvalidFd_below(f) == f < -1

\* fd < 0
InvalidFd(f) == f < 0

\* variant: the total is compared with the consumer's buffer size
SafetyBreak_bufsize(total) == total > ConsumerBufSize

\* total_written > 4000
SafetyBreak(total) == total > SafetyLimit

\* frames[k] of the caller's array: frames holds one period of it
FrameAt(k) == frames[(k % Len(frames)) + 1]

CallRec(op, step, idx) == [op |-> op, step |-> step, idx |-> idx]

\* variant: a write that did not transfer everything is issued again
DoWrite_retry(step, idx, data, next) ==
    \E r \in WriteOutcomes(Len(data)) :
        /\ res' = r
        /\ total_written' = Accumulate(total_written, r)
        /\ stream' = IF r > 0 THEN stream \o SubSeq(data, 1, r) ELSE stream
        /\ possum' = IF r > 0 THEN possum + r ELSE possum
        /\ nonpos' = IF r > 0 THEN nonpos ELSE nonpos + 1
        /\ faults' = IF r = Len(data) THEN faults ELSE faults + 1
        /\ calls' = IF r = Len(data)
                    THEN Append(calls, CallRec("write", step, idx))
                    ELSE calls \o <<CallRec("write", step, idx),
                                    CallRec("write", step, idx)>>
        /\ pc' = next

\* res = write(fd, data, strlen(data)); if (res > 0) total_written += res;
DoWrite(step, idx, data, next) ==
    \E r \in WriteOutcomes(Len(data)) :
        /\ res' = r
        /\ total_written' = Accumulate(total_written, r)
        /\ stream' = IF r > 0 THEN stream \o SubSeq(data, 1, r) ELSE stream
        /\ possum' = IF r > 0 THEN possum + r ELSE possum
        /\ nonpos' = IF r > 0 THEN nonpos ELSE nonpos + 1
        /\ faults' = IF r = Len(data) THEN faults ELSE faults + 1
        /\ calls' = Append(calls, CallRec("write", step, idx))
        /\ pc' = next

argVars == <<fd, signal_num, timestamp, thread_id, frames, frame_count, env, cv>>

-----------------------------------------------------------------------------
(* write_minimal_crash_info_c, one action per statement *)

RejectInvalidFd ==
    /\ pc = "start"
    /\ InvalidFd(fd)
    /\ ret' = -1
    /\ pc' = "done"
    /\ UNCHANGED <<argVars, faults, i, total_written, res, stream, calls,
                   possum, nonpos, iters, frame_reads>>

Begin ==
    /\ pc = "start"
    /\ ~InvalidFd(fd)
    /\ total_written' = 0
    /\ pc' = "signal_label"
    /\ UNCHANGED <<argVars, faults, i, res, ret, stream, calls, possum, nonpos,
                   iters, frame_reads>>

WriteSignalLabel ==
    /\ pc = "signal_label"
    /\ DoWrite("signal_label", -1, write_literal(LitSignal), "signal_val")
    /\ UNCHANGED <<argVars, i, ret, iters, frame_reads>>

WriteSignalVal ==
    /\ pc = "signal_val"
    /\ \E ub \in NegOverflowOutcomes :
          DoWrite("signal_val", -1, write_int32_val(signal_num, ub), "timestamp_label")
    /\ UNCHANGED <<argVars, i, ret, iters, frame_reads>>

WriteTimestampLabel ==
    /\ pc = "timestamp_label"
    /\ DoWrite("timestamp_label", -1, write_literal(LitTimestamp), "timestamp_val")
    /\ UNCHANGED <<argVars, i, ret, iters, frame_reads>>

WriteTimestampVal ==
    /\ pc = "timestamp_val"
    /\ \E ub \in NegOverflowOutcomes :
          DoWrite("timestamp_val", -1, write_int32_val(ToInt32(timestamp), ub),
                  "thread_label")
    /\ UNCHANGED <<argVars, i, ret, iters, frame_reads>>

WriteThreadLabel ==
    /\ pc = "thread_label"
    /\ DoWrite("thread_label", -1, write_literal(LitThreadID), "thread_val")
    /\ UNCHANGED <<argVars, i, ret, iters, frame_reads>>

WriteThreadVal ==
    /\ pc = "thread_val"
    /\ DoWrite("thread_val", -1, write_uint64_val(thread_id), "count_label")
    /\ UNCHANGED <<argVars, i, ret, iters, frame_reads>>

WriteCountLabel ==
    /\ pc = "count_label"
    /\ DoWrite("count_label", -1, write_literal(LitFramesCount), "count_val")
    /\ UNCHANGED <<argVars, i, ret, iters, frame_reads>>

WriteCountVal ==
    /\ pc = "count_val"
    /\ \E ub \in NegOverflowOutcomes :
          DoWrite("count_val", -1, write_int32_val(frame_count, ub), "frames_header")
    /\ UNCHANGED <<argVars, i, ret, iters, frame_reads>>

WriteFramesHeader ==
    /\ pc = "frames_header"
    /\ DoWrite("frames_header", -1, write_literal(LitFramesHeader), "loop")
    /\ UNCHANGED <<argVars, i, ret, iters, frame_reads>>

\* for (...; i < frame_count; ...) { if (frames[i] != NULL)
LoopTest ==
    /\ pc = "loop"
    /\ IF i < frame_count
       THEN /\ frame_reads' = frame_reads + 1
            /\ pc' = IF U64IsZero(FrameAt(i)) THEN "frame_nil" ELSE "frame_indent"
       ELSE /\ frame_reads' = frame_reads
            /\ pc' = "end"
    /\ UNCHANGED <<argVars, faults, i, total_written, res, ret, stream, calls,
                   possum, nonpos, iters>>

WriteFrameIndent ==
    /\ pc = "frame_indent"
    /\ DoWrite("frame_indent", i, write_literal(LitIndent), "frame_ptr")
    /\ UNCHANGED <<argVars, i, ret, iters, frame_reads>>

WriteFramePtr ==
    /\ pc = "frame_ptr"
    /\ DoWrite("frame_ptr", i, write_ptr_val(FrameAt(i)), "frame_newline")
    /\ UNCHANGED <<argVars, i, ret, iters, frame_reads>>

WriteFrameNewline ==
    /\ pc = "frame_newline"
    /\ DoWrite("frame_newline", i, write_literal(LitNewline), "check")
    /\ UNCHANGED <<argVars, i, ret, iters, frame_reads>>

WriteFrameNil ==
    /\ pc = "frame_nil"
    /\ DoWrite("frame_nil", i, write_literal(LitNilFrame), "check")
    /\ UNCHANGED <<argVars, i, ret, iters, frame_reads>>

\* if (total_written > 4000) break;   else ++i
SafetyCheck ==
    /\ pc = "check"
    /\ iters' = iters + 1
    /\ IF SafetyBreak(total_written)
       THEN /\ pc' = "end"
            /\ i' = i
       ELSE /\ pc' = "loop"
            /\ i' = i + 1
    /\ UNCHANGED <<argVars, faults, total_written, res, ret, stream, calls,
                   possum, nonpos, frame_reads>>

WriteEndMarker ==
    /\ pc = "end"
    /\ DoWrite("end_marker", -1, write_literal(LitEnd), "fsync")
    /\ UNCHANGED <<argVars, i, ret, iters, frame_reads>>

\* fsync(fd); return total_written > 0 ? total_written : -1;
FsyncAndReturn ==
    /\ pc = "fsync"
    /\ calls' = Append(calls, CallRec("fsync", "fsync", -1))
    /\ ret' = IF total_written > 0 THEN total_written ELSE -1
    /\ pc' = "done"
    /\ UNCHANGED <<argVars, faults, i, total_written, res, stream, possum,
                   nonpos, iters, frame_reads>>

Next ==
    \/ RejectInvalidFd
    \/ Begin
    \/ WriteSignalLabel
    \/ WriteSignalVal
    \/ WriteTimestampLabel
    \/ WriteTimestampVal
    \/ WriteThreadLabel
    \/ WriteThreadVal
    \/ WriteCountLabel
    \/ WriteCountVal
    \/ WriteFramesHeader
    \/ LoopTest
    \/ WriteFrameIndent
    \/ WriteFramePtr
    \/ WriteFrameNewline
    \/ WriteFrameNil
    \/ SafetyCheck
    \/ WriteEndMarker
    \/ FsyncAndReturn

-----------------------------------------------------------------------------
(* Arguments the caller may pass *)

NullPtr == U64Zero
PtrDeadBeef == <<48879, 57005, 0, 0>>
PtrOne == <<1, 0, 0, 0>>

Signals == {11, 0, -6, INT32_MAX, INT32_MIN}

TsBase == <<61696, 25939, 0, 0>>        \* 1700000000
TsNarrowsToMin == <<0, 32768, 0, 0>>    \* 2^31
TsWide == <<5, 0, 1, 0>>                \* 2^32 + 5
Timestamps == {TsBase, U64Zero, TsNarrowsToMin, TsWide, U64Max}

TidBase == <<6676, 48793, 28, 0>>       \* 123456789012
ThreadIds == {TidBase, U64Zero, U64Max}

FramePatterns == {<<PtrDeadBeef, NullPtr>>, <<NullPtr>>, <<U64Max>>, <<PtrOne>>}

SmallFrameCounts == {-1, 0, 1, 2}

NoCall == [fn |-> "none", ival |-> 0, uval |-> U64Zero, cap |-> 0, ub |-> 0,
           called |-> FALSE, buf |-> <<>>, ret |-> 0, wr |-> {}]

InitLocals ==
    /\ faults = 0
    /\ pc = "start"
    /\ i = 0
    /\ total_written = 0
    /\ res = 0
    /\ ret = 0
    /\ stream = <<>>
    /\ calls = <<>>
    /\ possum = 0
    /\ nonpos = 0
    /\ iters = 0
    /\ frame_reads = 0
    /\ cv = NoCall

Init ==
    /\ fd \in {-1, 3}
    /\ env \in {"full", "dead", "flaky"}
    /\ frames \in FramePatterns
    /\ \/ /\ frame_count \in SmallFrameCounts
          /\ env = "flaky" => frame_count <= MaxFlakyFrames
          /\ signal_num \in (IF env = "flaky" THEN {11, INT32_MIN} ELSE Signals)
          /\ timestamp \in (IF env = "flaky" THEN {TsBase} ELSE Timestamps)
          /\ thread_id \in (IF env = "flaky" THEN {TidBase} ELSE ThreadIds)
       \/ /\ frame_count = MaxFrames
          /\ env # "flaky"
          /\ signal_num = 11
          /\ timestamp = TsBase
          /\ thread_id = TidBase
    /\ InitLocals

Spec == Init /\ [][Next]_vars

-----------------------------------------------------------------------------
(* Calling one converter on its own, with any capacity *)

Pow10 == <<1, 10, 100, 1000, 10000, 100000, 1000000, 10000000, 100000000,
           1000000000>>

Int32Samples ==
    {0, 11, -6, 12345, -12345, 1700000000, INT32_MAX, -INT32_MAX, INT32_MIN}
    \cup {Pow10[k] : k \in 1 .. 10}
    \cup {-Pow10[k] : k \in 1 .. 10}
    \cup {Pow10[k] - 1 : k \in 2 .. 10}

LimbSamples == {0, 1, 10, 4096, 32768, 65535}

U64Samples ==
    {<<a, b, c, d>> : a \in LimbSamples, b \in LimbSamples,
                      c \in LimbSamples, d \in LimbSamples}
    \cup {TidBase, PtrDeadBeef, <<0, 35304, 8964, 35527>>}   \* ..., 10^19

Caps == 1 .. MaxCap

Pending(fn, iv, uv, n) ==
    [fn |-> fn, ival |-> iv, uval |-> uv, cap |-> n, ub |-> 0,
     called |-> FALSE, buf |-> <<>>, ret |-> 0, wr |-> {}]

Returned(r, ub) ==
    [cv EXCEPT !.called = TRUE, !.ub = ub, !.buf = r.buf, !.ret = r.ret,
               !.wr = r.wr]

InitConv ==
    /\ fd = -1
    /\ signal_num = 0
    /\ timestamp = U64Zero
    /\ thread_id = U64Zero
    /\ frames = <<NullPtr>>
    /\ frame_count = 0
    /\ env = "full"
    /\ faults = 0
    /\ pc = "idle"
    /\ i = 0
    /\ total_written = 0
    /\ res = 0
    /\ ret = 0
    /\ stream = <<>>
    /\ calls = <<>>
    /\ possum = 0
    /\ nonpos = 0
    /\ iters = 0
    /\ frame_reads = 0
    /\ \/ \E v \in Int32Samples, n \in Caps :
             cv = Pending("simple_itoa", v, U64Zero, n)
       \/ \E v \in U64Samples, n \in Caps :
             cv = Pending("simple_ulltoa", 0, v, n)
       \/ \E v \in U64Samples, n \in Caps :
             cv = Pending("simple_ptr_to_hex", 0, v, n)

Call_simple_itoa ==
    /\ cv.fn = "simple_itoa"
    /\ ~cv.called
    /\ \E ub \in (IF cv.ival = INT32_MIN THEN NegOverflowOutcomes ELSE {0}) :
          cv' = Returned(simple_itoa(cv.ival, cv.cap, ub), ub)
    /\ UNCHANGED composerVars

Call_simple_ulltoa ==
    /\ cv.fn = "simple_ulltoa"
    /\ ~cv.called
    /\ cv' = Returned(simple_ulltoa(cv.uval, cv.cap), 0)
    /\ UNCHANGED composerVars

Call_simple_ptr_to_hex ==
    /\ cv.fn = "simple_ptr_to_hex"
    /\ ~cv.called
    /\ cv' = Returned(simple_ptr_to_hex(cv.uval, cv.cap), 0)
    /\ UNCHANGED composerVars

NextConv ==
    \/ Call_simple_itoa
    \/ Call_simple_ulltoa
    \/ Call_simple_ptr_to_hex

SpecConv == InitConv /\ [][NextConv]_vars

-----------------------------------------------------------------------------
(* Reference notions used to state the properties: standard parsers and    *)
(* most-significant-first renderings, independent of the converters.       *)

RefDigits == <<"0", "1", "2", "3", "4", "5", "6", "7", "8", "9",
               "a", "b", "c", "d", "e", "f">>

IsDigitOf(c, radix) == \E d \in 1 .. radix : RefDigits[d] = c

DigitVal(c) == (CHOOSE d \in 1 .. 16 : RefDigits[d] = c) - 1

\* v * m + a on 64 bits, with the carry out of bit 63
U64MulAdd(v, m, a) ==
    LET c0 == v[1] * m + a
        c1 == v[2] * m + (c0 \div Base)
        c2 == v[3] * m + (c1 \div Base)
        c3 == v[4] * m + (c2 \div Base)
    IN [v |-> <<c0 % Base, c1 % Base, c2 % Base, c3 % Base>>,
        carry |-> c3 \div Base]

\* strtoull-style parse of a digit string in the given radix
RECURSIVE ParseU64(_, _)
ParseU64(str, radix) ==
    IF str = <<>> THEN [v |-> U64Zero, ok |-> TRUE]
    ELSE LET c    == str[Len(str)]
             rest == ParseU64(SubSeq(str, 1, Len(str) - 1), radix)
         IN IF ~rest.ok \/ ~IsDigitOf(c, radix) THEN [v |-> U64Zero, ok |-> FALSE]
            ELSE LET m == U64MulAdd(rest.v, radix, DigitVal(c))
                 IN [v |-> m.v, ok |-> m.carry = 0]

\* a non-negative int as 64-bit limbs
NatToU64(n) == <<n % Base, n \div Base, 0, 0>>

\* str parses to exactly the 64-bit value v in the given radix
ParsesTo(str, radix, v) ==
    LET r == ParseU64(str, radix) IN str # <<>> /\ r.ok /\ r.v = v

\* no leading zero, except for the single digit "0"
NoLeadingZero(str) == Len(str) >= 1 /\ (str[1] = "0" => Len(str) = 1)

Tail1(str) == SubSeq(str, 2, Len(str))

\* str is the shortest decimal representation of the int v (v # INT32_MIN)
IsDecimalOf(str, v) ==
    IF v < 0
    THEN /\ Len(str) >= 2
         /\ str[1] = "-"
         /\ NoLeadingZero(Tail1(str))
         /\ ParsesTo(Tail1(str), 10, NatToU64(-v))
    ELSE /\ NoLeadingZero(str)
         /\ ParsesTo(str, 10, NatToU64(v))

\* the string the call returned, and whether its terminator is in the buffer
Returned_str == CStr(cv)

TerminatedInside ==
    /\ cv.ret \in 0 .. cv.cap - 1
    /\ \E k \in cv.ret .. cv.cap - 1 :
          /\ cv.buf[k] = NUL
          /\ \A j \in cv.ret .. k - 1 : cv.buf[j] # NUL
          /\ Len(Returned_str) = k - cv.ret

-----------------------------------------------------------------------------
(* Properties of the converters (under SpecConv) *)

Thm_C10_WritesWithinCapacity ==
    cv.called
    => /\ cv.wr \subseteq 0 .. cv.cap - 1
       /\ cv.buf[cv.cap - 1] = NUL
       /\ TerminatedInside

Wit_C10_CapacityTooSmall ==
    /\ cv.called /\ cv.fn = "simple_ulltoa"
    /\ cv.uval = U64Max
    /\ cv.cap = 3
    /\ cv.wr = {0, 1, 2}
    /\ cv.ret = 0

-----------------------------------------------------------------------------
(* Reference renderings, most significant digit first *)

RECURSIVE RefDigitsOfNat(_)
RefDigitsOfNat(n) ==
    IF n < 10 THEN <<RefDigits[n + 1]>>
    ELSE RefDigitsOfNat(n \div 10) \o <<RefDigits[(n % 10) + 1]>>

\* dec(v), v # INT32_MIN
RefDec(v) == IF v < 0 THEN <<"-">> \o RefDigitsOfNat(-v) ELSE RefDigitsOfNat(v)

\* udec(v) on 64 bits
RECURSIVE RefUDec(_)
RefUDec(v) ==
    IF U64IsZero(U64Div10(v)) THEN <<RefDigits[U64Mod10(v) + 1]>>
    ELSE RefUDec(U64Div10(v)) \o <<RefDigits[U64Mod10(v) + 1]>>

RECURSIVE RefHexDigits(_)
RefHexDigits(v) ==
    IF U64IsZero(U64Shr4(v)) THEN <<RefDigits[U64Nibble(v) + 1]>>
    ELSE RefHexDigits(U64Shr4(v)) \o <<RefDigits[U64Nibble(v) + 1]>>

\* hex(p): "0x" and the digits of p
RefHex(v) == <<"0", "x">> \o RefHexDigits(v)

RefFrameLine(k) ==
    IF FrameAt(k) = NullPtr
    THEN <<" ", " ", "0", "x", "0", " ", "(", "n", "i", "l", ")", "\n">>
    ELSE <<" ", " ">> \o RefHex(FrameAt(k)) \o <<"\n">>

\* the lines of frames 0 .. n-1
RECURSIVE RefFrameLines(_)
RefFrameLines(n) ==
    IF n <= 0 THEN <<>> ELSE RefFrameLines(n - 1) \o RefFrameLine(n - 1)

\* the report after n frame lines, spelled out character by character
RefReport(n) ==
    <<"S", "i", "g", "n", "a", "l", ":", " ">> \o RefDec(signal_num)
    \o <<"\n", "T", "i", "m", "e", "s", "t", "a", "m", "p", ":", " ">>
    \o RefDec(ToInt32(timestamp))
    \o <<"\n", "T", "h", "r", "e", "a", "d", "I", "D", ":", " ">>
    \o RefUDec(thread_id)
    \o <<"\n", "F", "r", "a", "m", "e", "s", "_", "c", "o", "u", "n", "t", ":", " ">>
    \o RefDec(frame_count)
    \o <<"\n", "F", "r", "a", "m", "e", "s", " ", "(", "r", "a", "w", " ",
         "a", "d", "d", "r", "e", "s", "s", "e", "s", ")", ":", "\n">>
    \o RefFrameLines(n)
    \o <<"-", "-", "-", " ", "C", " ", "M", "i", "n", "i", "m", "a", "l", " ",
         "R", "e", "p", "o", "r", "t", " ", "E", "n", "d", " ", "-", "-", "-", "\n">>

HeaderSteps == <<"signal_label", "signal_val", "timestamp_label",
                 "timestamp_val", "thread_label", "thread_val",
                 "count_label", "count_val", "frames_header">>

RefHeaderCalls == [k \in 1 .. Len(HeaderSteps) |->
                      [op |-> "write", step |-> HeaderSteps[k], idx |-> -1]]

RefFrameCalls(k) ==
    IF FrameAt(k) = NullPtr
    THEN <<[op |-> "write", step |-> "frame_nil", idx |-> k]>>
    ELSE <<[op |-> "write", step |-> "frame_indent", idx |-> k],
           [op |-> "write", step |-> "frame_ptr", idx |-> k],
           [op |-> "write", step |-> "frame_newline", idx |-> k]>>

RECURSIVE RefLoopCalls(_)
RefLoopCalls(n) ==
    IF n <= 0 THEN <<>> ELSE RefLoopCalls(n - 1) \o RefFrameCalls(n - 1)

\* the system calls of a complete run that went through n loop iterations
RefCalls(n) ==
    RefHeaderCalls \o RefLoopCalls(n)
    \o <<[op |-> "write", step |-> "end_marker", idx |-> -1],
         [op |-> "fsync", step |-> "fsync", idx |-> -1]>>

CountStep(st) == Cardinality({k \in DOMAIN calls : calls[k].step = st})

AtFrameStart == pc \in {"frame_indent", "frame_nil"}

-----------------------------------------------------------------------------
(* Properties of write_minimal_crash_info_c (under Spec) *)

\* C1: called with a negative fd, the composer returns -1 and issues no
\* write and no fsync, whatever the other arguments are; the frames array
\* is not read.
Thm_C1_InvalidFdNoSideEffect ==
    fd < 0
    => /\ calls = <<>>
       /\ stream = <<>>
       /\ frame_reads = 0
       /\ pc \in {"start", "done"}
       /\ (pc = "done" => ret = -1)

Wit_C1_RejectedCall ==
    /\ fd < 0
    /\ pc = "done"
    /\ frame_count = MaxFrames
    /\ ret = -1

\* C2: with fd >= 0, for every outcome of each write the running total is
\* the sum of the positive write results (non-positive results never change
\* it), and the call returns that sum if it is positive and -1 otherwise.
Thm_C2_ReturnIsSumOfPositive ==
    fd >= 0
    => /\ total_written = possum
       /\ (pc = "done" => ret = (IF possum > 0 THEN possum ELSE -1))

Wit_C2_FailedAndShortWrites ==
    /\ fd >= 0
    /\ pc = "done"
    /\ env = "flaky"
    /\ nonpos >= 1
    /\ faults >= 2
    /\ ret = possum
    /\ ret > 0

\* C3: with fd >= 0, frame_count >= 0, every write complete, and neither
\* signal_num nor the narrowed timestamp equal to INT32_MIN, the bytes
\* written are exactly the header lines, one line per emitted frame in
\* index order, and the end marker; the return value is their length.
Thm_C3_ExactReport ==
    (/\ pc = "done" /\ fd >= 0 /\ env = "full" /\ frame_count >= 0
     /\ signal_num # INT32_MIN /\ ToInt32(timestamp) # INT32_MIN)
    => /\ stream = RefReport(iters)
       /\ ret = Len(stream)
       /\ (frame_count = 0 => iters = 0)

Wit_C3_TwoFrameReport ==
    /\ pc = "done" /\ fd >= 0 /\ env = "full"
    /\ signal_num = 11 /\ timestamp = TsBase /\ thread_id = TidBase
    /\ frames = <<PtrDeadBeef, NullPtr>> /\ frame_count = 2
    /\ iters = 2
    /\ ret = 150

\* C4: with fd >= 0 and every write complete, no frame line is started once
\* the total is above 4000, the loop ends exactly when the frames are
\* exhausted or the total is above 4000, the end marker is written exactly
\* once, after the loop, and the return value is positive and at most 4096.
Thm_C4_SafetyBound ==
    (fd >= 0 /\ env = "full")
    => /\ (AtFrameStart => (total_written <= 4000 /\ i < frame_count))
       /\ (pc = "end" => (total_written > 4000 \/ i >= frame_count))
       /\ (pc \in {"fsync", "done"} =>
              /\ CountStep("end_marker") = 1
              /\ \A k \in DOMAIN calls :
                    calls[k].step \in {"frame_indent", "frame_ptr",
                                       "frame_newline", "frame_nil"}
                    => \E e \in k + 1 .. Len(calls) : calls[e].step = "end_marker")
       /\ (pc = "done" => (ret > 0 /\ ret <= 4096))

Wit_C4_LoopCutShort ==
    /\ fd >= 0 /\ env = "full" /\ pc = "done"
    /\ frame_count = MaxFrames
    /\ iters < frame_count
    /\ ret > 4000
    /\ CountStep("end_marker") = 1

\* C5: with fd >= 0 the composer issues, whatever the writes return, exactly
\* one write per step in the fixed order (header steps, frame lines in index
\* order, end marker) and then exactly one fsync; frames are skipped only
\* by the safety bound.
Thm_C5_FixedCallSequence ==
    (pc = "done" /\ fd >= 0)
    => /\ calls = RefCalls(iters)
       /\ (iters = frame_count \/ (iters = 0 /\ frame_count < 0)
           \/ (iters < frame_count /\ total_written > 4000))

Wit_C5_AllStepsDespiteFailures ==
    /\ pc = "done" /\ fd >= 0
    /\ env = "dead"
    /\ frame_count = 2 /\ iters = 2
    /\ nonpos = Len(calls) - 1
    /\ calls[Len(calls)].op = "fsync"

\* C9: for every behaviour of write, the number of frame-loop iterations is
\* bounded by a constant that does not depend on frame_count (the number of
\* shortest frame lines it takes to pass the safety bound).
LoopIterationBound == (4000 \div 12) + 1

Claim_C9_LoopBoundedWhenWritesFail == iters <= LoopIterationBound

====
